---- MODULE Spec2Model ----
(***************************************************************************)
(* Football forward-archetype pipeline: processor.process_data,            *)
(* clustering.main and scripts/run_ghana_analysis.main, with the pure      *)
(* table functions they are built from.                                    *)
(*                                                                         *)
(* Numbers are exact rationals [n, d] (d > 0); d = 0 encodes the IEEE      *)
(* specials: 0/0 is NaN (a missing value), 1/0 and -1/0 are the            *)
(* infinities.  Floating rounding is not modelled.  A text cell is a       *)
(* string, the empty string being a missing (NaN) text cell.  Python's     *)
(* per-character string operations act on the spelling of a string.        *)
(***************************************************************************)
EXTENDS Integers, Sequences, FiniteSets, TLC

VARIABLES
  pc,             \* position of the running program or call
  rawFiles,       \* data/raw/*_standard.csv: a sequence of tables
  df,             \* the working DataFrame
  col_mapping,    \* the mapping identify_columns returned
  ret,            \* the value returned by the call
  processedFile,  \* data/processed/forwards_processed.csv
  arg,            \* the argument of a function called on its own
  clus,           \* clustering.main's locals: feature_names, silhouette_scores,
                  \* optimal_k (n_clusters), cluster_profiles
  clusteredFile,  \* data/processed/forwards_clustered.csv
  modelFile,      \* outputs/clustering_model.pkl
  gh,             \* run_ghana_analysis.main's locals: cluster_names, the
                  \* roster position, ghana_rows, found_players, not_found_players
  reportFile      \* outputs/ghana_analysis.csv

procVars == <<rawFiles, col_mapping, processedFile>>
clusVars == <<clus, clusteredFile, modelFile>>
ghVars   == <<gh, reportFile>>
vars == <<pc, df, ret, arg, procVars, clusVars, ghVars>>

(***************************** bounds **************************************)
\* most raw files in data/raw
MaxFiles == 2
\* most rows over all raw files, and in an argument table
MaxRows == 3
\* most rows of a processed table handed to clustering.main
MaxClusterRows == 4
\* most traits handed to suggest_cluster_name
MaxTraits == 4
\* columns of a table whose fields are resolved
MaxCols == 3

(***************************** strings *************************************)
\* The characters of every string literal the model uses.
Spelling ==
  ("Player" :> <<"P", "l", "a", "y", "e", "r">>)
  @@ ("Squad" :> <<"S", "q", "u", "a", "d">>)
  @@ ("Pos" :> <<"P", "o", "s">>)
  @@ ("Min" :> <<"M", "i", "n">>)
  @@ ("90s" :> <<"9", "0", "s">>)
  @@ ("Gls" :> <<"G", "l", "s">>)
  @@ ("Ast" :> <<"A", "s", "t">>)
  @@ ("source_file" :> <<"s", "o", "u", "r", "c", "e", "_", "f", "i", "l", "e">>)
  @@ ("90s_played" :> <<"9", "0", "s", "_", "p", "l", "a", "y", "e", "d">>)
  @@ ("goals_per90" :> <<"g", "o", "a", "l", "s", "_", "p", "e", "r", "9", "0">>)
  @@ ("assists_per90" :> <<"a", "s", "s", "i", "s", "t", "s", "_", "p", "e", "r", "9", "0">>)
  @@ ("xg_per90" :> <<"x", "g", "_", "p", "e", "r", "9", "0">>)
  @@ ("npxg_per90" :> <<"n", "p", "x", "g", "_", "p", "e", "r", "9", "0">>)
  @@ ("xag_per90" :> <<"x", "a", "g", "_", "p", "e", "r", "9", "0">>)
  @@ ("shots_per90" :> <<"s", "h", "o", "t", "s", "_", "p", "e", "r", "9", "0">>)
  @@ ("sot_per90" :> <<"s", "o", "t", "_", "p", "e", "r", "9", "0">>)
  @@ ("key_passes_per90" :> <<"k", "e", "y", "_", "p", "a", "s", "s", "e", "s", "_", "p", "e", "r", "9", "0">>)
  @@ ("sca_per90" :> <<"s", "c", "a", "_", "p", "e", "r", "9", "0">>)
  @@ ("gca_per90" :> <<"g", "c", "a", "_", "p", "e", "r", "9", "0">>)
  @@ ("progressive_carries_per90" :> <<"p", "r", "o", "g", "r", "e", "s", "s", "i", "v", "e", "_", "c", "a", "r", "r", "i", "e", "s", "_", "p", "e", "r", "9", "0">>)
  @@ ("progressive_passes_received_per90" :> <<"p", "r", "o", "g", "r", "e", "s", "s", "i", "v", "e", "_", "p", "a", "s", "s", "e", "s", "_", "r", "e", "c", "e", "i", "v", "e", "d", "_", "p", "e", "r", "9", "0">>)
  @@ ("dispossessed_per90" :> <<"d", "i", "s", "p", "o", "s", "s", "e", "s", "s", "e", "d", "_", "p", "e", "r", "9", "0">>)
  @@ ("miscontrols_per90" :> <<"m", "i", "s", "c", "o", "n", "t", "r", "o", "l", "s", "_", "p", "e", "r", "9", "0">>)
  @@ ("aerials_won_per90" :> <<"a", "e", "r", "i", "a", "l", "s", "_", "w", "o", "n", "_", "p", "e", "r", "9", "0">>)
  @@ ("player" :> <<"p", "l", "a", "y", "e", "r">>)
  @@ ("name" :> <<"n", "a", "m", "e">>)
  @@ ("Name" :> <<"N", "a", "m", "e">>)
  @@ ("team" :> <<"t", "e", "a", "m">>)
  @@ ("Team" :> <<"T", "e", "a", "m">>)
  @@ ("squad" :> <<"s", "q", "u", "a", "d">>)
  @@ ("pos" :> <<"p", "o", "s">>)
  @@ ("position" :> <<"p", "o", "s", "i", "t", "i", "o", "n">>)
  @@ ("Position" :> <<"P", "o", "s", "i", "t", "i", "o", "n">>)
  @@ ("min" :> <<"m", "i", "n">>)
  @@ ("minutes" :> <<"m", "i", "n", "u", "t", "e", "s">>)
  @@ ("Minutes" :> <<"M", "i", "n", "u", "t", "e", "s">>)
  @@ ("gls" :> <<"g", "l", "s">>)
  @@ ("goals" :> <<"g", "o", "a", "l", "s">>)
  @@ ("Goals" :> <<"G", "o", "a", "l", "s">>)
  @@ ("ast" :> <<"a", "s", "t">>)
  @@ ("assists" :> <<"a", "s", "s", "i", "s", "t", "s">>)
  @@ ("Assists" :> <<"A", "s", "s", "i", "s", "t", "s">>)
  @@ ("xg" :> <<"x", "g">>)
  @@ ("xG" :> <<"x", "G">>)
  @@ ("expected_goals" :> <<"e", "x", "p", "e", "c", "t", "e", "d", "_", "g", "o", "a", "l", "s">>)
  @@ ("npxg" :> <<"n", "p", "x", "g">>)
  @@ ("npxG" :> <<"n", "p", "x", "G">>)
  @@ ("np_xg" :> <<"n", "p", "_", "x", "g">>)
  @@ ("xag" :> <<"x", "a", "g">>)
  @@ ("xAG" :> <<"x", "A", "G">>)
  @@ ("xa" :> <<"x", "a">>)
  @@ ("xA" :> <<"x", "A">>)
  @@ ("FW" :> <<"F", "W">>)
  @@ ("LW" :> <<"L", "W">>)
  @@ ("RW" :> <<"R", "W">>)
  @@ ("ST" :> <<"S", "T">>)
  @@ ("CF" :> <<"C", "F">>)
  @@ ("FW,MF" :> <<"F", "W", ",", "M", "F">>)
  @@ ("fw" :> <<"f", "w">>)
  @@ ("MF" :> <<"M", "F">>)
  @@ ("RW,AM" :> <<"R", "W", ",", "A", "M">>)
  @@ ("MF,FW" :> <<"M", "F", ",", "F", "W">>)
  @@ ("AM" :> <<"A", "M">>)
  @@ ("90" :> <<"9", "0">>)
  @@ ("per90" :> <<"p", "e", "r", "9", "0">>)
  @@ ("_norm" :> <<"_", "n", "o", "r", "m">>)
  @@ ("goal" :> <<"g", "o", "a", "l">>)
  @@ ("assist" :> <<"a", "s", "s", "i", "s", "t">>)
  @@ ("key" :> <<"k", "e", "y">>)
  @@ ("carry" :> <<"c", "a", "r", "r", "y">>)
  @@ ("progress" :> <<"p", "r", "o", "g", "r", "e", "s", "s">>)
  @@ ("aerial" :> <<"a", "e", "r", "i", "a", "l">>)
  @@ ("cluster" :> <<"c", "l", "u", "s", "t", "e", "r">>)
  @@ ("cluster_name" :> <<"c", "l", "u", "s", "t", "e", "r", "_", "n", "a", "m", "e">>)
  @@ ("ghana_name" :> <<"g", "h", "a", "n", "a", "_", "n", "a", "m", "e">>)
  @@ ("_league" :> <<"_", "l", "e", "a", "g", "u", "e">>)
  @@ ("Kudus" :> <<"K", "u", "d", "u", "s">>)
  @@ ("Ayew" :> <<"A", "y", "e", "w">>)
  @@ ("Osman" :> <<"O", "s", "m", "a", "n">>)
  @@ ("WHU" :> <<"W", "H", "U">>)
  @@ ("LEI" :> <<"L", "E", "I">>)
  @@ ("FEY" :> <<"F", "E", "Y">>)
  @@ ("standard_a.csv" :> <<"s", "t", "a", "n", "d", "a", "r", "d", "_", "a", ".", "c", "s", "v">>)
  @@ ("standard_b.csv" :> <<"s", "t", "a", "n", "d", "a", "r", "d", "_", "b", ".", "c", "s", "v">>)
  @@ ("standard_c.csv" :> <<"s", "t", "a", "n", "d", "a", "r", "d", "_", "c", ".", "c", "s", "v">>)
  @@ ("nan" :> <<"n", "a", "n">>)
  @@ ("Mohammed Kudus" :> <<"M", "o", "h", "a", "m", "m", "e", "d", " ", "K", "u", "d", "u", "s">>)
  @@ ("M. Kudus" :> <<"M", ".", " ", "K", "u", "d", "u", "s">>)
  @@ ("Ibrahim Osman" :> <<"I", "b", "r", "a", "h", "i", "m", " ", "O", "s", "m", "a", "n">>)
  @@ ("I. Osman" :> <<"I", ".", " ", "O", "s", "m", "a", "n">>)
  @@ ("Alix Osman" :> <<"A", "l", "i", "x", " ", "O", "s", "m", "a", "n">>)
  @@ ("Mohammed Kudus II" :> <<"M", "o", "h", "a", "m", "m", "e", "d", " ", "K", "u", "d", "u", "s", " ", "I", "I">>)
  @@ ("Jordan Ayew" :> <<"J", "o", "r", "d", "a", "n", " ", "A", "y", "e", "w">>)
  @@ ("J. Ayew" :> <<"J", ".", " ", "A", "y", "e", "w">>)
  @@ ("mohammed kudus" :> <<"m", "o", "h", "a", "m", "m", "e", "d", " ", "k", "u", "d", "u", "s">>)
  @@ ("KUDUS" :> <<"K", "U", "D", "U", "S">>)
  @@ ("" :> <<>>)

Chars(s) == Spelling[s]

UpperLetters == <<"A","B","C","D","E","F","G","H","I","J","K","L","M",
                  "N","O","P","Q","R","S","T","U","V","W","X","Y","Z">>
LowerLetters == <<"a","b","c","d","e","f","g","h","i","j","k","l","m",
                  "n","o","p","q","r","s","t","u","v","w","x","y","z">>

\* the function sending from[i] to to[i], for i in 1..k
RECURSIVE CharMap(_, _, _)
CharMap(from, to, k) ==
  IF k = 0 THEN [x \in {} |-> x]
  ELSE (from[k] :> to[k]) @@ CharMap(from, to, k - 1)

LowerTable == CharMap(UpperLetters, LowerLetters, 26)
UpperTable == CharMap(LowerLetters, UpperLetters, 26)

LowerChar(c) == IF c \in DOMAIN LowerTable THEN LowerTable[c] ELSE c
UpperChar(c) == IF c \in DOMAIN UpperTable THEN UpperTable[c] ELSE c

\* the sequence f[1], ..., f[n], each element computed once
RECURSIVE TupleOf(_, _)
TupleOf(f, n) == IF n = 0 THEN <<>> ELSE Append(TupleOf(f, n - 1), f[n])

\* str.lower() and str.upper(), on spellings
Lower(w) == TupleOf([i \in 1..Len(w) |-> LowerChar(w[i])], Len(w))
Upper(w) == TupleOf([i \in 1..Len(w) |-> UpperChar(w[i])], Len(w))

\* Python's `sub in w`: sub occurs in w as a contiguous substring
Contains(sub, w) ==
  \E k \in 0..(Len(w) - Len(sub)) :
     \A i \in 1..Len(sub) : w[k + i] = sub[i]

\* re.search(pat, w) for a pattern of literal characters and ".", which
\* matches any one character (pandas str.contains compiles its argument
\* as a regular expression)
RegexSearch(pat, w) ==
  \E k \in 0..(Len(w) - Len(pat)) :
     \A i \in 1..Len(pat) : pat[i] = "." \/ w[k + i] = pat[i]

\* Series.astype(str) on a text cell: a missing cell reads "nan"
AsStr(cell) == IF cell = "" THEN Chars("nan") ELSE Chars(cell)

(***************************** numbers *************************************)
Abs(x) == IF x < 0 THEN -x ELSE x

RECURSIVE GCD(_, _)
GCD(a, b) == IF b = 0 THEN a ELSE GCD(b, a % b)

NaN    == [n |-> 0, d |-> 0]
PosInf == [n |-> 1, d |-> 0]
NegInf == [n |-> -1, d |-> 0]

\* the rational n/d in lowest terms, d # 0
Rat(n, d) ==
  LET g == GCD(Abs(n), Abs(d))
      s == IF d < 0 THEN -1 ELSE 1
  IN  [n |-> (s * n) \div g, d |-> (s * d) \div g]

Int2Rat(i) == [n |-> i, d |-> 1]
RZero == Int2Rat(0)
ROne  == Int2Rat(1)

IsNaN(x)    == x.d = 0 /\ x.n = 0
IsInf(x)    == x.d = 0 /\ x.n # 0
IsFinite(x) == x.d # 0

\* float arithmetic on finite values and NaN (NaN propagates)
RSub(a, b) ==
  IF ~IsFinite(a) \/ ~IsFinite(b) THEN NaN
  ELSE Rat(a.n * b.d - b.n * a.d, a.d * b.d)

RAdd(a, b) ==
  IF ~IsFinite(a) \/ ~IsFinite(b) THEN NaN
  ELSE Rat(a.n * b.d + b.n * a.d, a.d * b.d)

RMul(a, b) ==
  IF ~IsFinite(a) \/ ~IsFinite(b) THEN NaN
  ELSE Rat(a.n * b.n, a.d * b.d)

\* float division as numpy does it: x/0 is an infinity, 0/0 and anything
\* with NaN is NaN
RDiv(a, b) ==
  IF IsNaN(a) \/ IsNaN(b) THEN NaN
  ELSE IF ~IsFinite(a) \/ ~IsFinite(b) THEN NaN
  ELSE IF b.n = 0
       THEN (IF a.n = 0 THEN NaN ELSE IF a.n > 0 THEN PosInf ELSE NegInf)
       ELSE Rat(a.n * b.d, a.d * b.n)

\* comparisons; any comparison with NaN is False
RLe(a, b) == IsFinite(a) /\ IsFinite(b) /\ a.n * b.d <= b.n * a.d
RLt(a, b) == IsFinite(a) /\ IsFinite(b) /\ a.n * b.d < b.n * a.d
RGe(a, b) == RLe(b, a)
RGt(a, b) == RLt(b, a)

(***************************** tables **************************************)
\* A DataFrame: its column labels in order and its rows in order, a row
\* being a function from column label to cell.
Frame(cols, rows) == [cols |-> cols, rows |-> rows]

\* pd.DataFrame()
EmptyFrame == Frame(<<>>, <<>>)

\* an emptiness test that never reports an empty table
NeverEmpty(t) == FALSE

\* DataFrame.empty: no rows or no columns
IsEmpty(t) == Len(t.cols) = 0 \/ Len(t.rows) = 0

HasCol(t, c) == \E i \in DOMAIN t.cols : t.cols[i] = c

\* df[c] = vals: assign a whole column (appended when new)
SetCol(t, c, vals) ==
  Frame(IF HasCol(t, c) THEN t.cols ELSE Append(t.cols, c),
        TupleOf([i \in DOMAIN t.rows |-> (c :> vals[i]) @@ t.rows[i]],
                Len(t.rows)))

\* the subsequence of s at the positions satisfying keep, in order
RECURSIVE SelectIdx(_, _, _)
SelectIdx(s, keep, i) ==
  IF i > Len(s) THEN <<>>
  ELSE (IF keep[i] THEN <<s[i]>> ELSE <<>>) \o SelectIdx(s, keep, i + 1)

\* df[mask]: boolean-mask row selection
MaskRows(t, mask) == Frame(t.cols, SelectIdx(t.rows, mask, 1))

RECURSIVE Flatten(_)
Flatten(ss) == IF ss = <<>> THEN <<>> ELSE Head(ss) \o Flatten(Tail(ss))

MinOfSet(S) == CHOOSE x \in S : \A y \in S : x <= y

(***************************** config.py ***********************************)
MIN_MINUTES_PLAYED == 450

(***************************** processor.py ********************************)
\* identify_columns: the alias lists, per canonical field
patterns ==
  [player   |-> <<"player", "Player", "name", "Name">>,
   team     |-> <<"team", "Team", "squad", "Squad">>,
   position |-> <<"pos", "Pos", "position", "Position">>,
   minutes  |-> <<"min", "Min", "minutes", "Minutes", "90s">>,
   goals    |-> <<"gls", "Gls", "goals", "Goals">>,
   assists  |-> <<"ast", "Ast", "assists", "Assists">>,
   xg       |-> <<"xg", "xG", "expected_goals">>,
   npxg     |-> <<"npxg", "npxG", "np_xg">>,
   xag      |-> <<"xag", "xAG", "xa", "xA">>]

\* `name.lower() in col_str` for some alias of the field, col_str being
\* the lower-cased column label
ColMatches(key, col_str) ==
  \E j \in DOMAIN patterns[key] :
     Contains(Lower(Chars(patterns[key][j])), col_str)

\* per field, the first column (in column order) that contains any alias;
\* a field no column matches is absent from the mapping
identify_columns(t) ==
  LET col_str == TupleOf([i \in DOMAIN t.cols |-> Lower(Chars(t.cols[i]))],
                         Len(t.cols))
      hit == [key \in DOMAIN patterns |->
                {i \in DOMAIN t.cols : ColMatches(key, col_str[i])}]
      found == {key \in DOMAIN patterns : hit[key] # {}}
  IN  [key \in found |-> t.cols[MinOfSet(hit[key])]]

\* load_raw_data: every file gets a source_file column, then the files are
\* concatenated; no file at all gives the empty DataFrame
load_raw_data(files) ==
  IF files = <<>> THEN EmptyFrame
  ELSE Frame(Append(files[1].t.cols, "source_file"),
             Flatten([f \in DOMAIN files |->
                SetCol(files[f].t, "source_file",
                       [i \in DOMAIN files[f].t.rows |-> files[f].name]).rows]))

ForwardTokens == <<"FW", "LW", "RW", "ST", "CF">>

\* a position filter that compares the position code as it is spelled
FilterForwardsCaseSensitive(t, cm) ==
  IF "position" \notin DOMAIN cm THEN t
  ELSE LET pos_col == cm["position"]
           mask == [i \in DOMAIN t.rows |->
                      \E j \in DOMAIN ForwardTokens :
                         Contains(Chars(ForwardTokens[j]),
                                  AsStr(t.rows[i][pos_col]))]
       IN  MaskRows(t, mask)

filter_forwards(t, cm) ==
  IF "position" \notin DOMAIN cm THEN t
  ELSE LET pos_col == cm["position"]
           mask == [i \in DOMAIN t.rows |->
                      \E j \in DOMAIN ForwardTokens :
                         Contains(Chars(ForwardTokens[j]),
                                  Upper(AsStr(t.rows[i][pos_col])))]
       IN  MaskRows(t, mask)

\* the (player, team) columns deduplicate_players keys on
DedupPlayerCol(t, cm) ==
  LET dflt == IF "player" \in DOMAIN cm THEN cm["player"] ELSE "Player"
      hit  == {i \in DOMAIN t.cols : Lower(Chars(t.cols[i])) = Chars("player")}
  IN  IF hit # {} THEN t.cols[MinOfSet(hit)] ELSE dflt

DedupTeamCol(t, cm) ==
  LET dflt == IF "team" \in DOMAIN cm THEN cm["team"] ELSE "Squad"
      hit  == {i \in DOMAIN t.cols : Lower(Chars(t.cols[i])) = Chars("squad")}
  IN  IF hit # {} THEN t.cols[MinOfSet(hit)] ELSE dflt

\* drop_duplicates with keep='last'
DedupKeepLast(t, cm) ==
  LET pcol == DedupPlayerCol(t, cm)
      tcol == DedupTeamCol(t, cm)
      mask == [i \in DOMAIN t.rows |->
                 ~\E j \in (i + 1)..Len(t.rows) :
                     /\ t.rows[j][pcol] = t.rows[i][pcol]
                     /\ t.rows[j][tcol] = t.rows[i][tcol]]
  IN  MaskRows(t, mask)

\* drop_duplicates(subset=[player_col, team_col], keep='first')
deduplicate_players(t, cm) ==
  LET pcol == DedupPlayerCol(t, cm)
      tcol == DedupTeamCol(t, cm)
      mask == [i \in DOMAIN t.rows |->
                 ~\E j \in 1..(i - 1) :
                     /\ t.rows[j][pcol] = t.rows[i][pcol]
                     /\ t.rows[j][tcol] = t.rows[i][tcol]]
  IN  MaskRows(t, mask)

\* `'90' in str(min_col).lower()`: the minutes field counts 90-minute periods
IsNineties(min_col) == Contains(Chars("90"), Lower(Chars(min_col)))

\* a playing-time filter with an exclusive bound
FilterStrictlyAbove(t, cm) ==
  IF "minutes" \notin DOMAIN cm THEN t
  ELSE LET min_col == cm["minutes"]
           mask == [i \in DOMAIN t.rows |->
                      IF IsNineties(min_col)
                      THEN RGt(t.rows[i][min_col], Rat(MIN_MINUTES_PLAYED, 90))
                      ELSE RGt(t.rows[i][min_col], Int2Rat(MIN_MINUTES_PLAYED))]
       IN  MaskRows(t, mask)

filter_minimum_minutes(t, cm) ==
  IF "minutes" \notin DOMAIN cm THEN t
  ELSE LET min_col == cm["minutes"]
           mask == [i \in DOMAIN t.rows |->
                      IF IsNineties(min_col)
                      THEN RGe(t.rows[i][min_col], Rat(MIN_MINUTES_PLAYED, 90))
                      ELSE RGe(t.rows[i][min_col], Int2Rat(MIN_MINUTES_PLAYED))]
       IN  MaskRows(t, mask)

counting_stats == <<"goals", "assists", "xg", "npxg", "xag">>

Per90Col(stat) ==
  CASE stat = "goals"   -> "goals_per90"
    [] stat = "assists" -> "assists_per90"
    [] stat = "xg"      -> "xg_per90"
    [] stat = "npxg"    -> "npxg_per90"
    [] stat = "xag"     -> "xag_per90"

\* a per-90 conversion that divides by the period count as it is
KeepZero(x) == x

\* Series.replace(0, np.nan)
ReplaceZeroByNaN(x) == IF IsFinite(x) /\ x.n = 0 THEN NaN ELSE x

\* df['90s_played']
NinetiesPlayed(t, cm) ==
  LET min_col == cm["minutes"]
  IN  [i \in DOMAIN t.rows |->
         IF IsNineties(min_col) THEN t.rows[i][min_col]
         ELSE RDiv(t.rows[i][min_col], Int2Rat(90))]

\* the loop over counting_stats, from index k on
RECURSIVE Per90From(_, _, _)
Per90From(t, cm, k) ==
  IF k > Len(counting_stats) THEN t
  ELSE LET stat == counting_stats[k]
       IN  IF stat \in DOMAIN cm /\ HasCol(t, cm[stat])
           THEN Per90From(
                  SetCol(t, Per90Col(stat),
                         [i \in DOMAIN t.rows |->
                            RDiv(t.rows[i][cm[stat]],
                                 ReplaceZeroByNaN(t.rows[i]["90s_played"]))]),
                  cm, k + 1)
           ELSE Per90From(t, cm, k + 1)

normalize_per_90(t, cm) ==
  IF "minutes" \notin DOMAIN cm THEN t
  ELSE Per90From(SetCol(t, "90s_played", NinetiesPlayed(t, cm)), cm, 1)

feature_cols ==
  <<"goals_per90", "assists_per90", "xg_per90", "npxg_per90", "xag_per90">>

\* DataFrame.fillna(0), on one cell
FillNa0(x) == IF IsNaN(x) THEN RZero ELSE x

RMin(S) == CHOOSE x \in S : \A y \in S : RLe(x, y)
RMax(S) == CHOOSE x \in S : \A y \in S : RLe(y, x)

\* a scaling that divides by the maximum and leaves the minimum out
ScaleByMaxOnly(vals) ==
  LET S == {vals[i] : i \in DOMAIN vals}
  IN  TupleOf([i \in DOMAIN vals |-> RDiv(vals[i], RMax(S))], Len(vals))

\* MinMaxScaler().fit_transform on one column: (x - min) / (max - min),
\* a zero range being replaced by 1
MinMaxColumn(vals) ==
  LET S     == {vals[i] : i \in DOMAIN vals}
      lo    == RMin(S)
      range == RSub(RMax(S), lo)
      denom == IF range = RZero THEN ROne ELSE range
  IN  TupleOf([i \in DOMAIN vals |-> RDiv(RSub(vals[i], lo), denom)],
              Len(vals))

ExistingCols(t, cols) ==
  SelectIdx(cols, [i \in DOMAIN cols |-> HasCol(t, cols[i])], 1)

\* fit_transform raises ValueError on a table without rows and on an
\* infinite value
ScalerRaises(t, cols) ==
  \/ Len(t.rows) = 0
  \/ \E i \in DOMAIN t.rows, j \in DOMAIN cols : IsInf(t.rows[i][cols[j]])

RECURSIVE ScaleFrom(_, _, _)
ScaleFrom(t, cols, k) ==
  IF k > Len(cols) THEN t
  ELSE ScaleFrom(
         SetCol(t, cols[k],
                MinMaxColumn(TupleOf([i \in DOMAIN t.rows |->
                                        FillNa0(t.rows[i][cols[k]])],
                                      Len(t.rows)))),
         cols, k + 1)

normalize_features(t, cols) ==
  LET existing_cols == ExistingCols(t, cols)
  IN  IF existing_cols # <<>> THEN ScaleFrom(t, existing_cols, 1) ELSE t

NormalizeRaises(t, cols) ==
  LET existing_cols == ExistingCols(t, cols)
  IN  existing_cols # <<>> /\ ScalerRaises(t, existing_cols)

\* invert_negative_metrics
RECURSIVE InvertFrom(_, _, _)
InvertFrom(t, cols, k) ==
  IF k > Len(cols) THEN t
  ELSE IF HasCol(t, cols[k])
       THEN InvertFrom(SetCol(t, cols[k],
                         [i \in DOMAIN t.rows |-> RSub(ROne, t.rows[i][cols[k]])]),
                       cols, k + 1)
       ELSE InvertFrom(t, cols, k + 1)

invert_negative_metrics(t, negative_cols) == InvertFrom(t, negative_cols, 1)

(***************************** clustering.py *******************************)
\* N_CLUSTERS_RANGE: config.py tests range(4, 10); the candidate counts
\* are scaled down to KMin..KMax so that tables of MaxClusterRows rows
\* can be clustered
KMin == 2
KMax == 3
N_CLUSTERS_RANGE == KMin..KMax

\* silhouette scores are drawn from 1..MaxScore
MaxScore == 2

feature_candidates ==
  <<"goals_per90", "npxg_per90", "shots_per90", "sot_per90",
    "xag_per90", "key_passes_per90", "sca_per90", "gca_per90",
    "progressive_carries_per90", "progressive_passes_received_per90",
    "dispossessed_per90", "miscontrols_per90",
    "aerials_won_per90">>

\* col.endswith(suffix)
EndsWith(w, suffix) ==
  /\ Len(w) >= Len(suffix)
  /\ \A i \in 1..Len(suffix) : w[Len(w) - Len(suffix) + i] = suffix[i]

\* select_clustering_features: the candidate features the table has, else
\* every column naming a per-90 rate or a normalized feature
AvailableFeatures(t) ==
  LET present == ExistingCols(t, feature_candidates)
  IN  IF present # <<>> THEN present
      ELSE SelectIdx(t.cols,
             [i \in DOMAIN t.cols |->
                \/ Contains(Chars("per90"), Lower(Chars(t.cols[i])))
                \/ EndsWith(Chars(t.cols[i]), Chars("_norm"))], 1)

\* df[available_features].fillna(0), one row
FeatureVector(row, features) ==
  TupleOf([j \in DOMAIN features |-> FillNa0(row[features[j]])], Len(features))

FeatureVectors(t, features) ==
  {FeatureVector(t.rows[i], features) : i \in DOMAIN t.rows}

\* Number of distinct labels KMeans(n_clusters=k) yields on the table: one
\* per cluster, but no more than it has distinct points.
DistinctLabels(t, features, k) ==
  LET d == Cardinality(FeatureVectors(t, features))
  IN  IF k <= d THEN k ELSE d

\* KMeans.fit raises ValueError without features or with fewer samples
\* than clusters
KMeansRaises(t, features, k) ==
  Len(features) = 0 \/ Len(t.rows) < k

\* silhouette_score raises ValueError unless 2 <= n_labels <= n_samples - 1
SilhouetteRaises(t, features, k) ==
  LET u == DistinctLabels(t, features, k)
  IN  u < 2 \/ u > Len(t.rows) - 1

FindOptimalRaises(t, features) ==
  \E k \in N_CLUSTERS_RANGE :
     KMeansRaises(t, features, k) \/ SilhouetteRaises(t, features, k)

\* a selection that returns the last candidate whose score is maximal
ArgMaxLast(scores) ==
  CHOOSE k \in DOMAIN scores :
     /\ \A j \in DOMAIN scores : scores[j] <= scores[k]
     /\ \A j \in DOMAIN scores : (j > k) => scores[j] < scores[k]

\* list(N_CLUSTERS_RANGE)[np.argmax(silhouette_scores)]: the first
\* candidate whose score is maximal
BestK(scores) ==
  CHOOSE k \in DOMAIN scores :
     /\ \A j \in DOMAIN scores : scores[j] <= scores[k]
     /\ \A j \in DOMAIN scores : (j < k) => scores[j] < scores[k]

\* The label assignments KMeans.fit_predict can return: every row gets the
\* label of its nearest centre, so rows with equal feature vectors get
\* equal labels, and every label is one of 0 .. n_clusters - 1.
LabelAssignments(t, features, k) ==
  {[i \in DOMAIN t.rows |-> f[FeatureVector(t.rows[i], features)]] :
     f \in [FeatureVectors(t, features) -> 0..(k - 1)]}

\* Series.unique(): the distinct values in order of first appearance
RECURSIVE UniqueFrom(_, _, _)
UniqueFrom(s, i, acc) ==
  IF i > Len(s) THEN acc
  ELSE UniqueFrom(s, i + 1,
         IF \E j \in DOMAIN acc : acc[j] = s[i] THEN acc ELSE Append(acc, s[i]))

Unique(s) == UniqueFrom(s, 1, <<>>)

RECURSIVE RSum(_)
RSum(s) == IF s = <<>> THEN RZero ELSE RAdd(Head(s), RSum(Tail(s)))

\* Series.mean() and Series.std() skip missing values
NotNaNs(s) == SelectIdx(s, [i \in DOMAIN s |-> ~IsNaN(s[i])], 1)

Mean(s) ==
  LET v == NotNaNs(s)
  IN  IF v = <<>> THEN NaN ELSE RDiv(RSum(v), Int2Rat(Len(v)))

\* the sample variance (ddof = 1), whose square root Series.std() returns:
\* missing with fewer than two values
Variance(s) ==
  LET v == NotNaNs(s)
      m == Mean(s)
  IN  IF Len(v) < 2 THEN NaN
      ELSE RDiv(RSum(TupleOf([i \in DOMAIN v |->
                                RMul(RSub(v[i], m), RSub(v[i], m))], Len(v))),
                Int2Rat(Len(v) - 1))

\* A z-score is kept as its sign and its square, so that no square root
\* is taken: z = sign * sqrt(sq).
ZVal(sign, sq) == [sign |-> sign, sq |-> sq]

Sign(x) == IF x.n > 0 THEN 1 ELSE IF x.n < 0 THEN -1 ELSE 0

\* a z-score that divides whatever the standard deviation is
ZScoreUnguarded(cluster_mean, overall_mean, overall_var) ==
  LET diff == RSub(cluster_mean, overall_mean)
  IN  ZVal(Sign(diff), RDiv(RMul(diff, diff), overall_var))

\* (cluster_mean - overall_mean) / overall_std if overall_std > 0 else 0
ZScore(cluster_mean, overall_mean, overall_var) ==
  IF IsFinite(overall_var) /\ overall_var.n > 0
  THEN LET diff == RSub(cluster_mean, overall_mean)
       IN  ZVal(Sign(diff), RDiv(RMul(diff, diff), overall_var))
  ELSE ZVal(0, RZero)

ColumnOf(t, c) == TupleOf([i \in DOMAIN t.rows |-> t.rows[i][c]], Len(t.rows))

\* sorted(..., key=abs(z), reverse=True) is stable: x goes behind every
\* trait whose |z| is at least its own
RECURSIVE InsertByAbsZ(_, _)
InsertByAbsZ(sorted, x) ==
  IF sorted = <<>> THEN <<x>>
  ELSE IF RLt(Head(sorted).z_score.sq, x.z_score.sq)
       THEN <<x>> \o sorted
       ELSE <<Head(sorted)>> \o InsertByAbsZ(Tail(sorted), x)

RECURSIVE SortByAbsZ(_, _)
SortByAbsZ(s, acc) ==
  IF s = <<>> THEN acc ELSE SortByAbsZ(Tail(s), InsertByAbsZ(acc, Head(s)))

\* z > 0.5
ZAboveHalf(z) == z.sign = 1 /\ RGt(z.sq, Rat(1, 4))

Take(s, n) == SubSeq(s, 1, IF Len(s) < n THEN Len(s) ELSE n)

\* a naming that tests the keyword alone
NameIgnoringZ(traits) ==
  LET top == Take(traits, 3)
      named(kws) == \E i \in DOMAIN top, j \in DOMAIN kws :
                       Contains(Chars(kws[j]), Chars(top[i].feat))
  IN  IF named(<<"goal", "xg">>) THEN "Goal Poacher"
      ELSE IF named(<<"assist", "xag", "key">>) THEN "Creative Playmaker"
      ELSE IF named(<<"carry", "progress">>) THEN "Ball Carrier"
      ELSE IF named(<<"aerial">>) THEN "Target Man"
      ELSE "Hybrid Forward"

suggest_cluster_name(traits) ==
  LET top == Take(traits, 3)
      named(kws) == \E i \in DOMAIN top, j \in DOMAIN kws :
                       Contains(Chars(kws[j]), Chars(top[i].feat))
      high == \E i \in DOMAIN top : ZAboveHalf(top[i].z_score)
  IN  IF named(<<"goal", "xg">>) /\ high THEN "Goal Poacher"
      ELSE IF named(<<"assist", "xag", "key">>) /\ high THEN "Creative Playmaker"
      ELSE IF named(<<"carry", "progress">>) /\ high THEN "Ball Carrier"
      ELSE IF named(<<"aerial">>) /\ high THEN "Target Man"
      ELSE "Hybrid Forward"

\* the rows of one cluster
ClusterRows(t, cluster_id) ==
  MaskRows(t, [i \in DOMAIN t.rows |-> t.rows[i]["cluster"] = cluster_id])

\* profile.items(): per feature the cluster mean and the z-score against
\* the whole table
ProfileItems(t, cluster_df, features) ==
  LET have == ExistingCols(cluster_df, features)
  IN  TupleOf([j \in DOMAIN have |->
                 [feat    |-> have[j],
                  mean    |-> Mean(ColumnOf(cluster_df, have[j])),
                  z_score |-> ZScore(Mean(ColumnOf(cluster_df, have[j])),
                                     Mean(ColumnOf(t, have[j])),
                                     Variance(ColumnOf(t, have[j])))]],
              Len(have))

\* a profile whose size counts the whole table
ProfileOfWholeTable(t, cluster_id, features) ==
  LET sorted_traits ==
        SortByAbsZ(ProfileItems(t, ClusterRows(t, cluster_id), features), <<>>)
  IN  [name   |-> suggest_cluster_name(sorted_traits),
       size   |-> Len(t.rows),
       traits |-> Take(sorted_traits, 5)]

ClusterProfile(t, cluster_id, features) ==
  LET cluster_df == ClusterRows(t, cluster_id)
      sorted_traits == SortByAbsZ(ProfileItems(t, cluster_df, features), <<>>)
  IN  [name   |-> suggest_cluster_name(sorted_traits),
       size   |-> Len(cluster_df.rows),
       traits |-> Take(sorted_traits, 5)]

\* one profile per value of df['cluster'].unique()
analyze_cluster_profiles(t, features) ==
  LET ids == Unique(ColumnOf(t, "cluster"))
  IN  [cluster_id \in {ids[i] : i \in DOMAIN ids} |->
         ClusterProfile(t, cluster_id, features)]

\* the dictionary save_model pickles
ModelData(kmeans, scaler, features, profiles) ==
  [kmeans |-> kmeans, scaler |-> scaler,
   feature_names |-> features, cluster_profiles |-> profiles]

(***************************** run_ghana_analysis.py ***********************)
PLAYER_COL == "Player"
SQUAD_COL  == "Squad"

\* GHANA_PLAYERS, in dictionary order: two of its thirteen entries
GHANA_PLAYERS ==
  << [name |-> "Mohammed Kudus",
      aliases |-> <<"Kudus", "M. Kudus", "Mohammed Kudus">>],
     [name |-> "Ibrahim Osman",
      aliases |-> <<"I. Osman", "Ibrahim Osman">>] >>

\* the rows find_player returns for one search name, none when neither
\* the exact nor the contains mask has a hit
RowsForName(t, search_name) ==
  LET lowered == Lower(Chars(search_name))
      cell(i) == Lower(AsStr(t.rows[i][PLAYER_COL]))
      exact   == [i \in DOMAIN t.rows |-> cell(i) = lowered]
      contain == [i \in DOMAIN t.rows |-> RegexSearch(lowered, cell(i))]
  IN  IF \E i \in DOMAIN t.rows : exact[i] THEN MaskRows(t, exact)
      ELSE IF \E i \in DOMAIN t.rows : contain[i] THEN MaskRows(t, contain)
      ELSE EmptyFrame

\* the loop over all_names, from position k on
RECURSIVE FindFrom(_, _, _)
FindFrom(t, all_names, k) ==
  IF k > Len(all_names) THEN EmptyFrame
  ELSE LET hit == RowsForName(t, all_names[k])
       IN  IF ~IsEmpty(hit) THEN hit ELSE FindFrom(t, all_names, k + 1)

find_player(t, name, aliases) == FindFrom(t, <<name>> \o aliases, 1)

\* dict.get(key, default) on the unpickled model data
DictGet(d, key, default) == IF key \in DOMAIN d THEN d[key] ELSE default

\* {i: f"Cluster {i}" for i in range(10)}
DefaultClusterNames ==
  [i \in 0..9 |-> <<"Cluster 0", "Cluster 1", "Cluster 2", "Cluster 3",
                    "Cluster 4", "Cluster 5", "Cluster 6", "Cluster 7",
                    "Cluster 8", "Cluster 9">>[i + 1]]

\* Series.map(dict): a key the dictionary lacks maps to a missing value
MapCell(d, key) == IF key \in DOMAIN d THEN d[key] ELSE ""

(***************************** inputs **************************************)
\* Raw rows the bounded inputs are drawn from: a forward above the
\* threshold, a second row of the same (player, team) exactly at the
\* threshold with a missing assists count, a midfielder, a player without
\* playing time, and a second row of the midfielder's (player, team).
RowPool ==
  { [player |-> "Kudus", squad |-> "WHU", pos |-> "FW,MF", min |-> 900,
     gls |-> Int2Rat(5), ast |-> Int2Rat(2),
     xg |-> Rat(9, 2), npxg |-> Int2Rat(4), xag |-> Rat(3, 2)],
    [player |-> "Kudus", squad |-> "WHU", pos |-> "fw", min |-> 450,
     gls |-> Int2Rat(1), ast |-> NaN,
     xg |-> Int2Rat(1), npxg |-> Int2Rat(1), xag |-> NaN],
    [player |-> "Ayew", squad |-> "LEI", pos |-> "MF", min |-> 900,
     gls |-> Int2Rat(3), ast |-> Int2Rat(1),
     xg |-> Int2Rat(2), npxg |-> Int2Rat(2), xag |-> Int2Rat(1)],
    [player |-> "Kudus", squad |-> "FEY", pos |-> "RW", min |-> 0,
     gls |-> Int2Rat(2), ast |-> Int2Rat(0),
     xg |-> Int2Rat(0), npxg |-> Int2Rat(0), xag |-> Int2Rat(0)],
    [player |-> "Ayew", squad |-> "LEI", pos |-> "ST", min |-> 1800,
     gls |-> Int2Rat(0), ast |-> Int2Rat(4),
     xg |-> Rat(1, 2), npxg |-> Rat(1, 2), xag |-> Int2Rat(3)] }

\* Column layouts of the raw tables: playing time in minutes, playing
\* time in 90-minute periods with the expected-goals statistics, and a
\* table with neither a position nor a playing-time column.
Headers ==
  { <<"Player", "Squad", "Pos", "Min", "Gls", "Ast">>,
    <<"Player", "Squad", "Pos", "90s", "Gls", "xG", "npxG", "xAG">>,
    <<"Player", "Squad", "Gls">> }

CellOf(col, r) ==
  CASE col = "Player" -> r.player
    [] col = "Squad"  -> r.squad
    [] col = "Pos"    -> r.pos
    [] col = "Min"    -> Int2Rat(r.min)
    [] col = "90s"    -> Rat(r.min, 90)
    [] col = "Gls"    -> r.gls
    [] col = "Ast"    -> r.ast
    [] col = "xG"     -> r.xg
    [] col = "npxG"   -> r.npxg
    [] col = "xAG"    -> r.xag

MkRow(h, r) == [c \in {h[i] : i \in DOMAIN h} |-> CellOf(c, r)]

SeqsUpTo(S, n) == UNION {[1..k -> S] : k \in 0..n}

\* every table with header h of at most MaxRows rows
Tables(h) ==
  {Frame(h, rs) : rs \in SeqsUpTo({MkRow(h, r) : r \in RowPool}, MaxRows)}

FileNames == <<"standard_a.csv", "standard_b.csv", "standard_c.csv">>

\* the ways to cut n rows into k consecutive files: cuts[f] is the number
\* of rows in the first f files
Cuts(n, k) ==
  {c \in [0..k -> 0..n] :
     /\ c[0] = 0
     /\ c[k] = n
     /\ \A f \in 1..k : c[f - 1] <= c[f]}

\* k files of layout h holding the rows rs, cut at cuts
FilesOf(h, rs, k, cuts) ==
  [f \in 1..k |->
     [name |-> FileNames[f],
      t    |-> Frame(h, SubSeq(rs, cuts[f - 1] + 1, cuts[f]))]]

NoMapping == [k \in {} |-> ""]
Pending   == [kind |-> "pending"]
Absent    == [exists |-> FALSE]
Written(t) == [exists |-> TRUE, frame |-> t]
NoLocals  == [k \in {} |-> ""]

(***************************** process_data ********************************)
\* the variables of the programs that are not running
IdleClustering ==
  /\ clus = NoLocals
  /\ clusteredFile = Absent
  /\ modelFile = Absent

IdleRoster ==
  /\ gh = NoLocals
  /\ reportFile = Absent

InitProcess ==
  /\ pc = "pd_load"
  /\ \E h \in Headers, k \in 0..MaxFiles :
        \E t \in Tables(h) :
           \E c \in Cuts(Len(t.rows), k) : rawFiles = FilesOf(h, t.rows, k, c)
  /\ df = EmptyFrame
  /\ col_mapping = NoMapping
  /\ ret = Pending
  /\ processedFile = Absent
  /\ arg = EmptyFrame
  /\ IdleClustering
  /\ IdleRoster

\* df = load_raw_data()
PD_Load ==
  /\ pc = "pd_load"
  /\ df' = load_raw_data(rawFiles)
  /\ pc' = "pd_loaded"
  /\ UNCHANGED <<rawFiles, col_mapping, ret, processedFile, arg, clusVars, ghVars>>

\* if df.empty: print("No data to process!"); return
PD_NoData ==
  /\ pc = "pd_loaded"
  /\ IsEmpty(df)
  /\ ret' = [kind |-> "None", printed |-> "No data to process!"]
  /\ pc' = "pd_done"
  /\ UNCHANGED <<rawFiles, df, col_mapping, processedFile, arg, clusVars, ghVars>>

PD_IdentifyColumns ==
  /\ pc = "pd_loaded"
  /\ ~IsEmpty(df)
  /\ col_mapping' = identify_columns(df)
  /\ pc' = "pd_filter_forwards"
  /\ UNCHANGED <<rawFiles, df, ret, processedFile, arg, clusVars, ghVars>>

PD_FilterForwards ==
  /\ pc = "pd_filter_forwards"
  /\ df' = filter_forwards(df, col_mapping)
  /\ pc' = "pd_filter_minutes"
  /\ UNCHANGED <<rawFiles, col_mapping, ret, processedFile, arg, clusVars, ghVars>>

PD_FilterMinimumMinutes ==
  /\ pc = "pd_filter_minutes"
  /\ df' = filter_minimum_minutes(df, col_mapping)
  /\ pc' = "pd_per90"
  /\ UNCHANGED <<rawFiles, col_mapping, ret, processedFile, arg, clusVars, ghVars>>

PD_NormalizePer90 ==
  /\ pc = "pd_per90"
  /\ df' = normalize_per_90(df, col_mapping)
  /\ pc' = "pd_normalize"
  /\ UNCHANGED <<rawFiles, col_mapping, ret, processedFile, arg, clusVars, ghVars>>

PD_NormalizeFeatures ==
  /\ pc = "pd_normalize"
  /\ ~NormalizeRaises(df, feature_cols)
  /\ df' = normalize_features(df, feature_cols)
  /\ pc' = "pd_save"
  /\ UNCHANGED <<rawFiles, col_mapping, ret, processedFile, arg, clusVars, ghVars>>

\* the scaler's ValueError leaves process_data
PD_NormalizeFeaturesRaises ==
  /\ pc = "pd_normalize"
  /\ NormalizeRaises(df, feature_cols)
  /\ ret' = [kind |-> "ValueError"]
  /\ pc' = "pd_raised"
  /\ UNCHANGED <<rawFiles, df, col_mapping, processedFile, arg, clusVars, ghVars>>

\* df.to_csv(output_file, index=False); return df
PD_Save ==
  /\ pc = "pd_save"
  /\ processedFile' = Written(df)
  /\ ret' = [kind |-> "DataFrame"]      \* the frame returned is df
  /\ pc' = "pd_done"
  /\ UNCHANGED <<rawFiles, df, col_mapping, arg, clusVars, ghVars>>

NextProcess ==
  \/ PD_Load
  \/ PD_NoData
  \/ PD_IdentifyColumns
  \/ PD_FilterForwards
  \/ PD_FilterMinimumMinutes
  \/ PD_NormalizePer90
  \/ PD_NormalizeFeatures
  \/ PD_NormalizeFeaturesRaises
  \/ PD_Save

SpecProcess == InitProcess /\ [][NextProcess]_vars

(***************************** clustering.main *****************************)
\* Processed rows the clustering inputs are drawn from (features already
\* scaled to [0, 1]).
ClusterRowPool ==
  { [player |-> "Mohammed Kudus II", squad |-> "WHU",
     goals |-> Int2Rat(1), xag |-> Int2Rat(0), assists |-> Int2Rat(1)],
    [player |-> "Jordan Ayew", squad |-> "LEI",
     goals |-> Int2Rat(0), xag |-> Int2Rat(1), assists |-> Int2Rat(0)],
    [player |-> "Alix Osman", squad |-> "FEY",
     goals |-> Rat(1, 2), xag |-> Int2Rat(0), assists |-> Rat(1, 2)] }

\* Layouts of the processed table: two of the canonical features, and a
\* table whose only rate is outside the canonical list.
ClusterHeaders ==
  { <<"Player", "Squad", "goals_per90", "xag_per90">>,
    <<"Player", "Squad", "assists_per90">> }

ClusterCellOf(col, r) ==
  CASE col = "Player"        -> r.player
    [] col = "Squad"         -> r.squad
    [] col = "goals_per90"   -> r.goals
    [] col = "xag_per90"     -> r.xag
    [] col = "assists_per90" -> r.assists

ProcessedTables ==
  UNION { {Frame(h, rs) :
             rs \in SeqsUpTo({[c \in {h[i] : i \in DOMAIN h} |-> ClusterCellOf(c, r)] :
                                r \in ClusterRowPool}, MaxClusterRows)} :
          h \in ClusterHeaders }

ClusLocals ==
  [feature_names |-> <<>>, silhouette_scores |-> <<>>, optimal_k |-> 0,
   cluster_profiles |-> <<>>]

GhLocals ==
  [cluster_names |-> <<>>, i |-> 1, ghana_rows |-> <<>>,
   found_players |-> <<>>, not_found_players |-> <<>>]

InitClustering ==
  /\ pc = "cl_load"
  /\ processedFile \in {Absent} \cup {Written(t) : t \in ProcessedTables}
  /\ df = EmptyFrame
  /\ ret = Pending
  /\ arg = EmptyFrame
  /\ rawFiles = <<>>
  /\ col_mapping = NoMapping
  /\ clus = ClusLocals
  /\ clusteredFile = Absent
  /\ modelFile = Absent
  /\ IdleRoster

\* df = load_processed_data()
CL_Load ==
  /\ pc = "cl_load"
  /\ df' = IF processedFile.exists THEN processedFile.frame ELSE EmptyFrame
  /\ pc' = "cl_loaded"
  /\ UNCHANGED <<ret, arg, procVars, clusVars, ghVars>>

\* if df.empty: return
CL_NoData ==
  /\ pc = "cl_loaded"
  /\ IsEmpty(df)
  /\ ret' = [kind |-> "None"]
  /\ pc' = "cl_done"
  /\ UNCHANGED <<df, arg, procVars, clusVars, ghVars>>

\* X, feature_names = select_clustering_features(df)
\* optimal_k = find_optimal_clusters(X)
CL_FindOptimalClusters ==
  /\ pc = "cl_loaded"
  /\ ~IsEmpty(df)
  /\ ~FindOptimalRaises(df, AvailableFeatures(df))
  /\ \E scores \in [N_CLUSTERS_RANGE -> 1..MaxScore] :
        clus' = [clus EXCEPT !.feature_names = AvailableFeatures(df),
                             !.silhouette_scores = scores,
                             !.optimal_k = BestK(scores)]
  /\ pc' = "cl_run"
  /\ UNCHANGED <<df, ret, arg, procVars, clusteredFile, modelFile, ghVars>>

\* a ValueError of KMeans or silhouette_score leaves main
CL_FindOptimalClustersRaises ==
  /\ pc = "cl_loaded"
  /\ ~IsEmpty(df)
  /\ FindOptimalRaises(df, AvailableFeatures(df))
  /\ ret' = [kind |-> "ValueError"]
  /\ pc' = "cl_raised"
  /\ UNCHANGED <<df, arg, procVars, clusVars, ghVars>>

\* df, kmeans, scaler, feature_names = run_clustering(df, optimal_k);
\* KMeans cannot raise here, the search has fitted every candidate count
CL_RunClustering ==
  /\ pc = "cl_run"
  /\ ~KMeansRaises(df, AvailableFeatures(df), clus.optimal_k)
  /\ \E clusters \in LabelAssignments(df, AvailableFeatures(df), clus.optimal_k) :
        df' = SetCol(df, "cluster", clusters)
  /\ pc' = "cl_analyze"
  /\ UNCHANGED <<ret, arg, procVars, clusVars, ghVars>>

\* cluster_profiles = analyze_cluster_profiles(df, feature_names)
CL_AnalyzeClusterProfiles ==
  /\ pc = "cl_analyze"
  /\ clus' = [clus EXCEPT !.cluster_profiles =
                             analyze_cluster_profiles(df, clus.feature_names)]
  /\ pc' = "cl_save_table"
  /\ UNCHANGED <<df, ret, arg, procVars, clusteredFile, modelFile, ghVars>>

\* df.to_csv(output_file, index=False)
CL_SaveTable ==
  /\ pc = "cl_save_table"
  /\ clusteredFile' = Written(df)
  /\ pc' = "cl_save_model"
  /\ UNCHANGED <<df, ret, arg, procVars, clus, modelFile, ghVars>>

\* save_model(kmeans, scaler, feature_names, cluster_profiles)
CL_SaveModel ==
  /\ pc = "cl_save_model"
  /\ modelFile' = [exists |-> TRUE,
                   data |-> ModelData([n_clusters |-> clus.optimal_k],
                                      "StandardScaler", clus.feature_names,
                                      clus.cluster_profiles)]
  /\ ret' = [kind |-> "None"]
  /\ pc' = "cl_done"
  /\ UNCHANGED <<df, arg, procVars, clus, clusteredFile, ghVars>>

NextClustering ==
  \/ CL_Load
  \/ CL_NoData
  \/ CL_FindOptimalClusters
  \/ CL_FindOptimalClustersRaises
  \/ CL_RunClustering
  \/ CL_AnalyzeClusterProfiles
  \/ CL_SaveTable
  \/ CL_SaveModel

SpecClustering == InitClustering /\ [][NextClustering]_vars

\* process_data and clustering.main, each run on its own inputs
SpecStages ==
  (InitProcess \/ InitClustering) /\ [][NextProcess \/ NextClustering]_vars

(***************************** run_ghana_analysis.main *********************)
\* the script is started once clustering.main has ended
GH_Start ==
  /\ pc \in {"cl_done", "cl_raised"}
  /\ pc' = "gh_load"
  /\ gh' = GhLocals
  /\ df' = EmptyFrame
  /\ ret' = Pending
  /\ UNCHANGED <<arg, procVars, clusVars, reportFile>>

\* if not data_file.exists(): return
GH_FileNotFound ==
  /\ pc = "gh_load"
  /\ ~clusteredFile.exists
  /\ ret' = [kind |-> "None"]
  /\ pc' = "gh_done"
  /\ UNCHANGED <<df, arg, procVars, clusVars, ghVars>>

\* df = pd.read_csv(data_file)
GH_Load ==
  /\ pc = "gh_load"
  /\ clusteredFile.exists
  /\ df' = clusteredFile.frame
  /\ pc' = "gh_names"
  /\ UNCHANGED <<ret, arg, procVars, clusVars, ghVars>>

\* cluster_names = model_data.get('cluster_names', {})
GH_LoadClusterNames ==
  /\ pc = "gh_names"
  /\ modelFile.exists
  /\ gh' = [gh EXCEPT !.cluster_names =
                         DictGet(modelFile.data, "cluster_names", NoLocals)]
  /\ pc' = "gh_search"
  /\ UNCHANGED <<df, ret, arg, procVars, clusVars, reportFile>>

\* cluster_names = {i: f"Cluster {i}" for i in range(10)}
GH_DefaultClusterNames ==
  /\ pc = "gh_names"
  /\ ~modelFile.exists
  /\ gh' = [gh EXCEPT !.cluster_names = DefaultClusterNames]
  /\ pc' = "gh_search"
  /\ UNCHANGED <<df, ret, arg, procVars, clusVars, reportFile>>

\* one pass of the roster loop whose lookup finds rows: the first of them,
\* with its ghana_name, joins ghana_rows
GH_Found ==
  /\ pc = "gh_search"
  /\ gh.i <= Len(GHANA_PLAYERS)
  /\ LET canonical_name == GHANA_PLAYERS[gh.i].name
         result == find_player(df, canonical_name, GHANA_PLAYERS[gh.i].aliases)
     IN  /\ ~IsEmpty(result)
         /\ gh' = [gh EXCEPT
                     !.ghana_rows = Append(@, ("ghana_name" :> canonical_name)
                                               @@ result.rows[1]),
                     !.found_players = Append(@, canonical_name),
                     !.i = @ + 1]
  /\ UNCHANGED <<pc, df, ret, arg, procVars, clusVars, reportFile>>

\* a roster loop that gives up at the first lookup that finds nothing
GH_NotFoundAborts ==
  /\ pc = "gh_search"
  /\ gh.i <= Len(GHANA_PLAYERS)
  /\ IsEmpty(find_player(df, GHANA_PLAYERS[gh.i].name, GHANA_PLAYERS[gh.i].aliases))
  /\ ret' = [kind |-> "ValueError"]
  /\ pc' = "gh_done"
  /\ UNCHANGED <<df, arg, procVars, clusVars, ghVars>>

\* one pass of the roster loop whose lookup finds nothing
GH_NotFound ==
  /\ pc = "gh_search"
  /\ gh.i <= Len(GHANA_PLAYERS)
  /\ LET canonical_name == GHANA_PLAYERS[gh.i].name
         result == find_player(df, canonical_name, GHANA_PLAYERS[gh.i].aliases)
     IN  /\ IsEmpty(result)
         /\ gh' = [gh EXCEPT !.not_found_players = Append(@, canonical_name),
                             !.i = @ + 1]
  /\ UNCHANGED <<pc, df, ret, arg, procVars, clusVars, reportFile>>

\* if not ghana_rows: return
GH_NoneFound ==
  /\ pc = "gh_search"
  /\ gh.i > Len(GHANA_PLAYERS)
  /\ gh.ghana_rows = <<>>
  /\ ret' = [kind |-> "None"]
  /\ pc' = "gh_done"
  /\ UNCHANGED <<df, arg, procVars, clusVars, ghVars>>

\* ghana_df = pd.concat(ghana_rows, ignore_index=True)
\* ghana_df['cluster_name'] = ghana_df['cluster'].map(cluster_names)
\* ghana_df.to_csv(output_file, index=False)
GH_Report ==
  /\ pc = "gh_search"
  /\ gh.i > Len(GHANA_PLAYERS)
  /\ gh.ghana_rows # <<>>
  /\ LET ghana_df == Frame(Append(df.cols, "ghana_name"), gh.ghana_rows)
     IN  reportFile' =
           Written(SetCol(ghana_df, "cluster_name",
                          [r \in DOMAIN ghana_df.rows |->
                             MapCell(gh.cluster_names, ghana_df.rows[r]["cluster"])]))
  /\ ret' = [kind |-> "None"]
  /\ pc' = "gh_done"
  /\ UNCHANGED <<df, arg, procVars, clusVars, gh>>

NextRoster ==
  \/ GH_Start
  \/ GH_FileNotFound
  \/ GH_Load
  \/ GH_LoadClusterNames
  \/ GH_DefaultClusterNames
  \/ GH_Found
  \/ GH_NotFound
  \/ GH_NoneFound
  \/ GH_Report

\* Clustered tables found on disk without a model bundle beside them: the
\* processed tables with every row in cluster 0 or every row in cluster 1.
ClusteredTablesAlone ==
  {SetCol(t, "cluster", [i \in DOMAIN t.rows |-> c]) :
     t \in {x \in ProcessedTables : Len(x.rows) > 0}, c \in 0..1}

InitRosterAlone ==
  /\ pc = "gh_load"
  /\ clusteredFile \in {Written(t) : t \in ClusteredTablesAlone}
  /\ modelFile = Absent
  /\ processedFile = Absent
  /\ df = EmptyFrame
  /\ ret = Pending
  /\ arg = EmptyFrame
  /\ rawFiles = <<>>
  /\ col_mapping = NoMapping
  /\ clus = NoLocals
  /\ gh = GhLocals
  /\ reportFile = Absent

\* clustering.main followed by the roster script, and the roster script on
\* a clustered table alone
SpecRoster ==
  (InitClustering \/ InitRosterAlone) /\ [][NextClustering \/ NextRoster]_vars

(***************************** functions called on their own ***************)
InitTableFn ==
  /\ pc = "fn_call"
  /\ arg \in UNION {Tables(h) : h \in Headers}
  /\ col_mapping = identify_columns(arg)
  /\ df = EmptyFrame
  /\ rawFiles = <<>>
  /\ ret = Pending
  /\ processedFile = Absent
  /\ IdleClustering
  /\ IdleRoster

Call_deduplicate_players ==
  /\ pc = "fn_call"
  /\ df' = deduplicate_players(arg, col_mapping)
  /\ pc' = "dedup_done"
  /\ UNCHANGED <<rawFiles, col_mapping, ret, processedFile, arg, clusVars, ghVars>>

Call_normalize_per_90 ==
  /\ pc = "fn_call"
  /\ df' = normalize_per_90(arg, col_mapping)
  /\ pc' = "per90_done"
  /\ UNCHANGED <<rawFiles, col_mapping, ret, processedFile, arg, clusVars, ghVars>>

\* normalize_features(df, feature_cols) on the table normalize_per_90 has
\* returned
Call_normalize_features ==
  /\ pc = "per90_done"
  /\ ~NormalizeRaises(df, feature_cols)
  /\ arg' = df
  /\ df' = normalize_features(df, feature_cols)
  /\ pc' = "scaled_done"
  /\ UNCHANGED <<rawFiles, col_mapping, ret, processedFile, clusVars, ghVars>>

Call_normalize_features_raises ==
  /\ pc = "per90_done"
  /\ NormalizeRaises(df, feature_cols)
  /\ ret' = [kind |-> "ValueError"]
  /\ pc' = "scaled_raised"
  /\ UNCHANGED <<rawFiles, df, col_mapping, processedFile, arg, clusVars, ghVars>>

NextTableFn ==
  \/ Call_deduplicate_players
  \/ Call_normalize_per_90
  \/ Call_normalize_features
  \/ Call_normalize_features_raises

SpecTableFn == InitTableFn /\ [][NextTableFn]_vars

\* Trait lists as analyze_cluster_profiles hands them over: distinct
\* features, ranked by non-increasing |z|.
TraitFeatures ==
  {"goals_per90", "npxg_per90", "xag_per90", "progressive_carries_per90",
   "aerials_won_per90", "sca_per90"}

\* z = 2, 0.6, 0.5 and -2
TraitZs == {ZVal(1, Int2Rat(4)), ZVal(1, Rat(9, 25)), ZVal(1, Rat(1, 4)),
            ZVal(-1, Int2Rat(4))}

\* n distinct features
FeatureRankings(n) ==
  {f \in [1..n -> TraitFeatures] : \A i, j \in 1..n : i < j => f[i] # f[j]}

\* n z-scores of non-increasing absolute value
ZRankings(n) ==
  {z \in [1..n -> TraitZs] : \A i \in 1..(n - 1) : RLe(z[i + 1].sq, z[i].sq)}

\* the list of n traits with features f and z-scores z
TraitList(f, z, n) ==
  TupleOf([i \in 1..n |-> [feat |-> f[i], mean |-> RZero, z_score |-> z[i]]], n)

InitNaming ==
  /\ pc = "name_call"
  /\ \E n \in 0..MaxTraits :
        \E f \in FeatureRankings(n), z \in ZRankings(n) : arg = TraitList(f, z, n)
  /\ df = EmptyFrame
  /\ ret = Pending
  /\ rawFiles = <<>>
  /\ col_mapping = NoMapping
  /\ processedFile = Absent
  /\ IdleClustering
  /\ IdleRoster

Call_suggest_cluster_name ==
  /\ pc = "name_call"
  /\ ret' = [kind |-> "str", value |-> suggest_cluster_name(arg)]
  /\ pc' = "name_done"
  /\ UNCHANGED <<df, arg, procVars, clusVars, ghVars>>

SpecNaming == InitNaming /\ [][Call_suggest_cluster_name]_vars

\* Clustered rows find_player is tried on.
PlayerRowPool ==
  { [Player |-> "Mohammed Kudus",    Squad |-> "WHU", cluster |-> 0],
    [Player |-> "Mohammed Kudus II", Squad |-> "FEY", cluster |-> 1],
    [Player |-> "Kudus",             Squad |-> "FEY", cluster |-> 1],
    [Player |-> "KUDUS",             Squad |-> "WHU", cluster |-> 0],
    [Player |-> "Alix Osman",        Squad |-> "FEY", cluster |-> 0],
    [Player |-> "Jordan Ayew",       Squad |-> "LEI", cluster |-> 1] }

PlayerTables ==
  {Frame(<<"Player", "Squad", "cluster">>, rs) :
     rs \in SeqsUpTo(PlayerRowPool, MaxRows)}

InitFindPlayer ==
  /\ pc = "find_call"
  /\ arg \in PlayerTables
  /\ gh \in {[i |-> k] : k \in DOMAIN GHANA_PLAYERS}
  /\ df = EmptyFrame
  /\ ret = Pending
  /\ rawFiles = <<>>
  /\ col_mapping = NoMapping
  /\ processedFile = Absent
  /\ IdleClustering
  /\ reportFile = Absent

\* result = find_player(df, canonical_name, aliases)
Call_find_player ==
  /\ pc = "find_call"
  /\ df' = find_player(arg, GHANA_PLAYERS[gh.i].name, GHANA_PLAYERS[gh.i].aliases)
  /\ pc' = "find_done"
  /\ UNCHANGED <<ret, arg, procVars, clusVars, ghVars>>

SpecFindPlayer == InitFindPlayer /\ [][Call_find_player]_vars

\* Rows the two filters are tried on: a composite position code at exactly
\* the threshold, a lower-case forward one minute below it, a missing
\* position, a midfielder with missing playing time, an attacking
\* midfielder just above the threshold, and a winger without playing time.
FilterRowPool ==
  { [player |-> "Kudus", pos |-> "MF,FW", min |-> Int2Rat(MIN_MINUTES_PLAYED)],
    [player |-> "Ayew",  pos |-> "fw",    min |-> Int2Rat(MIN_MINUTES_PLAYED - 1)],
    [player |-> "Osman", pos |-> "",      min |-> Int2Rat(900)],
    [player |-> "Ayew",  pos |-> "MF",    min |-> NaN],
    [player |-> "Osman", pos |-> "AM",    min |-> Int2Rat(MIN_MINUTES_PLAYED + 1)],
    [player |-> "Kudus", pos |-> "RW,AM", min |-> Int2Rat(0)] }

FilterHeaders ==
  { <<"Player", "Pos", "Min">>, <<"Player", "Pos", "90s">>, <<"Player", "90s">>,
    <<"Player", "Pos">> }

FilterCellOf(col, r) ==
  CASE col = "Player" -> r.player
    [] col = "Pos"    -> r.pos
    [] col = "Min"    -> r.min
    [] col = "90s"    -> RDiv(r.min, Int2Rat(90))

FilterTables ==
  UNION { {Frame(h, rs) :
             rs \in SeqsUpTo({[c \in {h[i] : i \in DOMAIN h} |-> FilterCellOf(c, r)] :
                                r \in FilterRowPool}, MaxRows)} :
          h \in FilterHeaders }

InitFilters ==
  /\ pc = "filter_call"
  /\ arg \in FilterTables
  /\ col_mapping = identify_columns(arg)
  /\ df = EmptyFrame
  /\ rawFiles = <<>>
  /\ ret = Pending
  /\ processedFile = Absent
  /\ IdleClustering
  /\ IdleRoster

Call_filter_forwards ==
  /\ pc = "filter_call"
  /\ df' = filter_forwards(arg, col_mapping)
  /\ pc' = "forwards_done"
  /\ UNCHANGED <<rawFiles, col_mapping, ret, processedFile, arg, clusVars, ghVars>>

Call_filter_minimum_minutes ==
  /\ pc = "filter_call"
  /\ df' = filter_minimum_minutes(arg, col_mapping)
  /\ pc' = "minutes_done"
  /\ UNCHANGED <<rawFiles, col_mapping, ret, processedFile, arg, clusVars, ghVars>>

NextFilters ==
  \/ Call_filter_forwards
  \/ Call_filter_minimum_minutes

SpecFilters == InitFilters /\ [][NextFilters]_vars

\* Column labels of the tables identify_columns is tried on, in any order
ColumnPool == {"Player", "Min", "90s", "xG", "npxG", "Gls"}

ColumnLayouts ==
  {h \in SeqsUpTo(ColumnPool, MaxCols) : \A i, j \in DOMAIN h : i < j => h[i] # h[j]}

InitIdentify ==
  /\ pc = "identify_call"
  /\ arg \in {Frame(h, <<>>) : h \in ColumnLayouts}
  /\ col_mapping = NoMapping
  /\ df = EmptyFrame
  /\ rawFiles = <<>>
  /\ ret = Pending
  /\ processedFile = Absent
  /\ IdleClustering
  /\ IdleRoster

\* col_mapping = identify_columns(df)
Call_identify_columns ==
  /\ pc = "identify_call"
  /\ col_mapping' = identify_columns(arg)
  /\ pc' = "identify_done"
  /\ UNCHANGED <<rawFiles, df, ret, processedFile, arg, clusVars, ghVars>>

SpecIdentify == InitIdentify /\ [][Call_identify_columns]_vars

Init ==
  \/ InitProcess
  \/ InitClustering
  \/ InitRosterAlone
  \/ InitTableFn
  \/ InitNaming
  \/ InitFindPlayer
  \/ InitFilters
  \/ InitIdentify

Next ==
  \/ NextProcess
  \/ NextClustering
  \/ NextRoster
  \/ NextTableFn
  \/ Call_suggest_cluster_name
  \/ Call_find_player
  \/ NextFilters
  \/ Call_identify_columns

Spec == Init /\ [][Next]_vars

(***************************** claims **************************************)
\* the row has no per-90 rate for the statistic: the count is missing or
\* the 90-minute-period count is zero
RateMissing(row, stat) ==
  \/ IsNaN(row[col_mapping[stat]])
  \/ (IsFinite(row[col_mapping["minutes"]]) /\ row[col_mapping["minutes"]].n = 0)

\* C1: in the processed table process_data persists, a missing per-90 rate
\* is never rendered as the number 0 in its <stat>_per90 column
C1_MissingRateNotZero ==
  processedFile.exists =>
    \A i \in DOMAIN processedFile.frame.rows :
      \A k \in DOMAIN counting_stats :
        LET stat == counting_stats[k]
            row  == processedFile.frame.rows[i]
        IN  ( /\ stat \in DOMAIN col_mapping
              /\ HasCol(processedFile.frame, Per90Col(stat))
              /\ RateMissing(row, stat) )
            => row[Per90Col(stat)] # RZero

\* no two rows of the table share a (player, team) pair
OneRowPerPlayerTeam(t) ==
  \A i, j \in DOMAIN t.rows :
     ( /\ i < j
       /\ t.rows[i]["Player"] = t.rows[j]["Player"]
       /\ t.rows[i]["Squad"] = t.rows[j]["Squad"] ) => FALSE

\* C2: the table reaching normalize_per_90, and the persisted processed
\* table, hold at most one row per (player, team) pair
C2_DedupBeforePer90 ==
  /\ pc = "pd_per90" => OneRowPerPlayerTeam(df)
  /\ processedFile.exists => OneRowPerPlayerTeam(processedFile.frame)

SameKey(a, b) == a["Player"] = b["Player"] /\ a["Squad"] = b["Squad"]

\* positions of arg whose (player, team) pair occurs at no earlier position
FirstPositions == {i \in DOMAIN arg.rows :
                     \A j \in 1..(i - 1) : ~SameKey(arg.rows[j], arg.rows[i])}

\* the k-th smallest member of a set of positions
KthOf(S, k) == CHOOSE i \in S : Cardinality({j \in S : j < i}) = k - 1

\* C3: deduplicate_players leaves at most one row per (player, team) pair,
\* the survivor is the first input row of the pair, every pair of the input
\* survives, and the survivors keep their relative order
C3_DedupKeepsFirst ==
  pc = "dedup_done" =>
    /\ df.cols = arg.cols
    /\ OneRowPerPlayerTeam(df)
    /\ \A i \in DOMAIN arg.rows :
          \E k \in DOMAIN df.rows : SameKey(df.rows[k], arg.rows[i])
    /\ Len(df.rows) = Cardinality(FirstPositions)
    /\ \A k \in DOMAIN df.rows : df.rows[k] = arg.rows[KthOf(FirstPositions, k)]

\* C3 witness: a table with a repeated pair, whose later row differs from
\* the first, has been deduplicated
C3_Witness ==
  /\ pc = "dedup_done"
  /\ \E i, j \in DOMAIN arg.rows :
        i < j /\ SameKey(arg.rows[i], arg.rows[j]) /\ arg.rows[i] # arg.rows[j]
  /\ Len(df.rows) = 2

\* C4: normalize_per_90 sets <stat>_per90 to stat / p when the row's
\* 90-minute-period count p is positive (p is the minutes field itself in
\* a 90s column, minutes / 90 otherwise), and to a missing value, neither 0
\* nor infinite, when p = 0
C4_Per90Correct ==
  (pc = "per90_done" /\ "minutes" \in DOMAIN col_mapping) =>
    \A i \in DOMAIN arg.rows :
      \A k \in DOMAIN counting_stats :
        LET stat == counting_stats[k]
            m    == arg.rows[i][col_mapping["minutes"]]
            pn   == m.n
            pd   == IF IsNineties(col_mapping["minutes"]) THEN m.d ELSE 90 * m.d
        IN  ( /\ stat \in DOMAIN col_mapping
              /\ HasCol(arg, col_mapping[stat])
              /\ IsFinite(arg.rows[i][col_mapping[stat]]) )
            => LET s == arg.rows[i][col_mapping[stat]]
                   r == df.rows[i][Per90Col(stat)]
               IN  /\ HasCol(df, Per90Col(stat))
                   /\ pn > 0 => (IsFinite(r) /\ r.n * pn * s.d = s.n * pd * r.d)
                   /\ pn = 0 => IsNaN(r)

\* C4 witness: a row with minutes = 0 and goals = 2 has been converted
C4_Witness ==
  /\ pc = "per90_done"
  /\ \E i \in DOMAIN arg.rows :
        /\ "minutes" \in DOMAIN col_mapping
        /\ arg.rows[i][col_mapping["minutes"]] = RZero
        /\ arg.rows[i]["Gls"] = Int2Rat(2)
        /\ IsNaN(df.rows[i]["goals_per90"])
  /\ \E i \in DOMAIN arg.rows : df.rows[i]["goals_per90"] = Rat(1, 2)

\* C5: every row of the roster report carries, as cluster_name, the name the
\* model bundle written by save_model stores for that row's cluster id in
\* its per-cluster profile dictionary
C5_ReportCarriesArchetype ==
  (reportFile.exists /\ modelFile.exists) =>
    \A i \in DOMAIN reportFile.frame.rows :
      LET row == reportFile.frame.rows[i]
      IN  /\ row["cluster"] \in DOMAIN modelFile.data.cluster_profiles
          /\ row["cluster_name"] =
                modelFile.data.cluster_profiles[row["cluster"]].name

\* C6: the clustered table clustering.main persists has, for every row, a
\* cluster column and a cluster_name column holding the archetype name of
\* the row's cluster
C6_ClusteredTableHasName ==
  clusteredFile.exists =>
    /\ HasCol(clusteredFile.frame, "cluster")
    /\ HasCol(clusteredFile.frame, "cluster_name")
    /\ \A i \in DOMAIN clusteredFile.frame.rows :
          LET row == clusteredFile.frame.rows[i]
          IN  row["cluster_name"] = clus.cluster_profiles[row["cluster"]].name

\* C7: find_player takes its result from the rows whose player field equals,
\* case-insensitively, the canonical name or any alias; only when there is
\* no such row, from the rows whose player field contains one of the names
\* as a case-insensitive substring; the first row of the result is the
\* first matching row in table order, and the result is empty when no row
\* matches
C7_ExactBeforeSubstring ==
  pc = "find_done" =>
    LET names == <<GHANA_PLAYERS[gh.i].name>> \o GHANA_PLAYERS[gh.i].aliases
        cell(i) == Lower(AsStr(arg.rows[i][PLAYER_COL]))
        ExactRows == {i \in DOMAIN arg.rows :
                        \E n \in DOMAIN names : cell(i) = Lower(Chars(names[n]))}
        SubRows == {i \in DOMAIN arg.rows :
                      \E n \in DOMAIN names :
                         Contains(Lower(Chars(names[n])), cell(i))}
        Matching == IF ExactRows # {} THEN ExactRows ELSE SubRows
    IN  IF Matching = {} THEN IsEmpty(df)
        ELSE /\ ~IsEmpty(df)
             /\ df.rows[1] = arg.rows[MinOfSet(Matching)]
             /\ \A k \in DOMAIN df.rows :
                   \E i \in Matching : df.rows[k] = arg.rows[i]

ProcessSteps == {"pd_load", "pd_loaded", "pd_filter_forwards",
                 "pd_filter_minutes", "pd_per90", "pd_normalize", "pd_save",
                 "pd_done", "pd_raised"}

ClusteringSteps == {"cl_load", "cl_loaded", "cl_run", "cl_analyze",
                    "cl_save_table", "cl_save_model", "cl_done", "cl_raised"}

\* C8: with no raw table, process_data goes from its load to its end,
\* prints the condition, returns None where a successful run returns the
\* table, and writes no processed table; with the processed table absent,
\* clustering.main goes from its load to its end and writes neither the
\* clustered table nor the model bundle; no step behind a stage's load runs
\* on empty loaded data, and no empty table is persisted
C8_MissingInputHalts ==
  /\ (pc \in ProcessSteps /\ rawFiles = <<>>) =>
        /\ pc \in {"pd_load", "pd_loaded", "pd_done"}
        /\ processedFile = Absent
        /\ pc = "pd_done" =>
              (ret.kind = "None" /\ ret.printed = "No data to process!")
  /\ (pc \in ProcessSteps \ {"pd_load", "pd_loaded", "pd_done"}) =>
        ~IsEmpty(load_raw_data(rawFiles))
  /\ (pc = "pd_done" /\ ~IsEmpty(load_raw_data(rawFiles))) =>
        (ret.kind = "DataFrame" /\ processedFile.exists)
  /\ (pc \in ClusteringSteps /\ ~processedFile.exists) =>
        /\ pc \in {"cl_load", "cl_loaded", "cl_done"}
        /\ clusteredFile = Absent
        /\ modelFile = Absent
  /\ (pc \in ClusteringSteps \ {"cl_load", "cl_loaded", "cl_done"}) =>
        (processedFile.exists /\ ~IsEmpty(processedFile.frame))
  /\ (pc \in ProcessSteps /\ processedFile.exists) =>
        Len(processedFile.frame.rows) > 0
  /\ clusteredFile.exists => Len(clusteredFile.frame.rows) > 0

\* C8 witness: process_data has ended on an empty raw-data directory
C8_Witness ==
  /\ pc = "pd_done"
  /\ rawFiles = <<>>
  /\ ret.kind = "None"
  /\ processedFile = Absent

ArchetypeLabels == {"Goal Poacher", "Creative Playmaker", "Ball Carrier",
                    "Target Man", "Hybrid Forward"}

\* C9: suggest_cluster_name looks at the first three traits only; it
\* returns "Hybrid Forward" when none of their z-scores is above 0.5, and
\* otherwise the label of the first rule, in the order Goal Poacher
\* (goal, xg), Creative Playmaker (assist, xag, key), Ball Carrier (carry,
\* progress), Target Man (aerial), one of whose keywords occurs in one of
\* the three feature names, "Hybrid Forward" when there is none; the
\* result is always one of the five labels
C9_NameFirstMatch ==
  pc = "name_done" =>
    LET top == SubSeq(arg, 1, IF Len(arg) < 3 THEN Len(arg) ELSE 3)
        occurs(kw) == \E i \in DOMAIN top :
                         Contains(Chars(kw), Chars(top[i].feat))
        high == \E i \in DOMAIN top :
                   /\ top[i].z_score.sign = 1
                   /\ 4 * top[i].z_score.sq.n > top[i].z_score.sq.d
        expected ==
          IF ~high THEN "Hybrid Forward"
          ELSE IF occurs("goal") \/ occurs("xg") THEN "Goal Poacher"
          ELSE IF occurs("assist") \/ occurs("xag") \/ occurs("key")
                 THEN "Creative Playmaker"
          ELSE IF occurs("carry") \/ occurs("progress") THEN "Ball Carrier"
          ELSE IF occurs("aerial") THEN "Target Man"
          ELSE "Hybrid Forward"
    IN  /\ ret.value = expected
        /\ ret.value \in ArchetypeLabels

\* C9 witness: four traits, a goal feature ranked fourth, an aerial feature
\* ranked before a creative one, the only z-score above 0.5 on the
\* aerial feature: the name is the creative one
C9_Witness ==
  /\ pc = "name_done"
  /\ Len(arg) = 4
  /\ arg[4].feat = "goals_per90"
  /\ arg[1].feat = "aerials_won_per90"
  /\ arg[1].z_score = ZVal(1, Int2Rat(4))
  /\ arg[2].feat = "xag_per90"
  /\ arg[2].z_score = ZVal(-1, Int2Rat(4))
  /\ arg[3].feat = "sca_per90"
  /\ ret.value = "Creative Playmaker"

\* the sizes of the profiles, added up
RECURSIVE SumSizes(_)
SumSizes(profiles) ==
  IF DOMAIN profiles = {} THEN 0
  ELSE LET c == CHOOSE x \in DOMAIN profiles : TRUE
       IN  profiles[c].size
           + SumSizes([x \in DOMAIN profiles \ {c} |-> profiles[x]])

\* C10: after run_clustering with cluster count k every row of the input is
\* still there and has a cluster id in 0 .. k-1; analyze_cluster_profiles
\* then yields exactly one profile per cluster id that occurs, each of size
\* at least 1 and equal to the number of rows of its cluster, and the sizes
\* add up to the number of rows
C10_PartitionComplete ==
  /\ pc \in {"cl_analyze", "cl_save_table", "cl_save_model"} =>
        /\ HasCol(df, "cluster")
        /\ Len(df.rows) = Len(processedFile.frame.rows)
        /\ \A i \in DOMAIN df.rows :
              df.rows[i]["cluster"] \in 0..(clus.optimal_k - 1)
  /\ pc \in {"cl_save_table", "cl_save_model"} =>
        LET profiles == clus.cluster_profiles
        IN  /\ DOMAIN profiles = {df.rows[i]["cluster"] : i \in DOMAIN df.rows}
            /\ \A c \in DOMAIN profiles :
                  /\ profiles[c].size >= 1
                  /\ profiles[c].size =
                        Cardinality({i \in DOMAIN df.rows :
                                       df.rows[i]["cluster"] = c})
            /\ SumSizes(profiles) = Len(df.rows)

\* C10 witness: a table of four rows has been split over two of three
\* clusters and profiled
C10_Witness ==
  /\ pc = "cl_save_table"
  /\ clus.optimal_k = 3
  /\ Len(df.rows) = 4
  /\ Cardinality(DOMAIN clus.cluster_profiles) = 2

\* the positions of arg that satisfy keep, as a table with arg's columns
\* and order
KeptRows(keep) ==
  /\ df.cols = arg.cols
  /\ Len(df.rows) = Cardinality(keep)
  /\ \A k \in DOMAIN df.rows : df.rows[k] = arg.rows[KthOf(keep, k)]

\* C11: filter_minimum_minutes keeps exactly the rows whose playing time is
\* at least MIN_MINUTES_PLAYED minutes (MIN_MINUTES_PLAYED / 90 periods in a
\* 90s column), the bound included, unchanged and in their order
C11_MinutesInclusive ==
  (pc = "minutes_done" /\ "minutes" \in DOMAIN col_mapping) =>
    LET min_col == col_mapping["minutes"]
        enough(x) ==
          /\ x.d > 0
          /\ IF min_col = "90s" THEN 90 * x.n >= MIN_MINUTES_PLAYED * x.d
                                ELSE x.n >= MIN_MINUTES_PLAYED * x.d
    IN  KeptRows({i \in DOMAIN arg.rows : enough(arg.rows[i][min_col])})

\* C11 witness: a 90s table with a row at exactly 5 periods, a row just
\* below and a row above has been filtered to the first and the last
C11_Witness ==
  /\ pc = "minutes_done"
  /\ HasCol(arg, "90s")
  /\ Len(arg.rows) = 3
  /\ arg.rows[1]["90s"] = Int2Rat(5)
  /\ arg.rows[2]["90s"] = Rat(449, 90)
  /\ arg.rows[3]["90s"] = Int2Rat(10)
  /\ df.rows = <<arg.rows[1], arg.rows[3]>>

ForwardCodes == {"FW", "LW", "RW", "ST", "CF"}

RosterHits(n) ==
  {k \in 1..n :
     ~IsEmpty(find_player(df, GHANA_PLAYERS[k].name, GHANA_PLAYERS[k].aliases))}

RosterMisses(n) == (1..n) \ RosterHits(n)

\* C13: while the roster is searched, every player already passed is in
\* exactly one of found_players / not_found_players, found when the lookup
\* has a row and not found otherwise; a lookup that finds nothing does not
\* end the search, which stops only behind the last roster player; the
\* report has exactly one row per found player, in roster order
C13_LookupNeverAborts ==
  /\ pc = "gh_search" =>
        LET n == gh.i - 1
        IN  /\ n \in 0..Len(GHANA_PLAYERS)
            /\ Len(gh.found_players) = Cardinality(RosterHits(n))
            /\ Len(gh.not_found_players) = Cardinality(RosterMisses(n))
            /\ \A j \in DOMAIN gh.found_players :
                  gh.found_players[j] = GHANA_PLAYERS[KthOf(RosterHits(n), j)].name
            /\ \A j \in DOMAIN gh.not_found_players :
                  gh.not_found_players[j] =
                    GHANA_PLAYERS[KthOf(RosterMisses(n), j)].name
            /\ Len(gh.ghana_rows) = Len(gh.found_players)
  /\ (pc = "gh_done" /\ clusteredFile.exists) =>
        /\ gh.i = Len(GHANA_PLAYERS) + 1
        /\ Len(gh.found_players) + Len(gh.not_found_players) = Len(GHANA_PLAYERS)
        /\ \A k \in DOMAIN GHANA_PLAYERS :
              (\E j \in DOMAIN gh.found_players :
                  gh.found_players[j] = GHANA_PLAYERS[k].name)
              # (\E j \in DOMAIN gh.not_found_players :
                    gh.not_found_players[j] = GHANA_PLAYERS[k].name)
        /\ reportFile.exists <=> gh.found_players # <<>>
        /\ reportFile.exists =>
              /\ Len(reportFile.frame.rows) = Len(gh.found_players)
              /\ \A j \in DOMAIN gh.found_players :
                    reportFile.frame.rows[j]["ghana_name"] = gh.found_players[j]

\* C13 witness: the first roster player was not found, the second was, and
\* the report has the second player's row
C13_Witness ==
  /\ pc = "gh_done"
  /\ reportFile.exists
  /\ gh.not_found_players = <<GHANA_PLAYERS[1].name>>
  /\ gh.found_players = <<GHANA_PLAYERS[2].name>>
  /\ Len(reportFile.frame.rows) = 1

\* C14: in process_data the step that follows min-max scaling is the metric
\* inversion: once normalize_features has returned, invert_negative_metrics
\* runs before anything else does
C14_InversionAfterScaling ==
  [][(pc = "pd_normalize" /\ pc' # "pd_raised") => pc' = "pd_invert"]_vars

\* the columns of arg whose label contains the j-th alias of the field,
\* whatever the case
AliasHits(key, j) ==
  {i \in DOMAIN arg.cols :
     Contains(Lower(Chars(patterns[key][j])), Lower(Chars(arg.cols[i])))}

\* C15: identify_columns maps each field to the first column, in column
\* order, that contains the first alias, in alias order, contained in any
\* column; a field none of whose aliases is contained in a column is not
\* in the mapping
C15_AliasPriority ==
  pc = "identify_done" =>
    \A key \in DOMAIN patterns :
      LET matching == {j \in DOMAIN patterns[key] : AliasHits(key, j) # {}}
      IN  IF matching = {} THEN key \notin DOMAIN col_mapping
          ELSE /\ key \in DOMAIN col_mapping
               /\ col_mapping[key] =
                     arg.cols[MinOfSet(AliasHits(key, MinOfSet(matching)))]

\* C16: once find_optimal_clusters has returned, every candidate count of
\* N_CLUSTERS_RANGE, each at least 2, has a silhouette score; the count
\* returned is in the range, no candidate has a higher score, and every
\* smaller candidate has a strictly lower one
C16_SmallestBestK ==
  pc \in {"cl_run", "cl_analyze", "cl_save_table", "cl_save_model"} =>
    /\ DOMAIN clus.silhouette_scores = N_CLUSTERS_RANGE
    /\ \A k \in N_CLUSTERS_RANGE : k >= 2
    /\ clus.optimal_k \in N_CLUSTERS_RANGE
    /\ \A k \in N_CLUSTERS_RANGE :
          /\ clus.silhouette_scores[k] <= clus.silhouette_scores[clus.optimal_k]
          /\ k < clus.optimal_k =>
                clus.silhouette_scores[k] < clus.silhouette_scores[clus.optimal_k]

\* C16 witness: the smallest and the largest candidate tie at the highest
\* score and the smallest has been returned
C16_Witness ==
  /\ pc = "cl_run"
  /\ clus.silhouette_scores[KMin] = MaxScore
  /\ clus.silhouette_scores[KMax] = MaxScore
  /\ clus.optimal_k = KMin

\* the value of column c in row i of arg, a missing one read as 0
Imputed(i, c) == IF arg.rows[i][c].d = 0 THEN RZero ELSE arg.rows[i][c]

\* x lies in the closed interval [0, 1]
InUnitInterval(x) == x.d > 0 /\ 0 <= x.n /\ x.n <= x.d

\* C17: normalize_features keeps the columns and the rows; in every listed
\* column that exists each value becomes (x - lo) / (hi - lo), a number of
\* [0, 1], where x is the value with a missing one read as 0 and lo and hi
\* are the least and the greatest such x of the column (0 when hi = lo);
\* every other column is unchanged and no listed column is added
C17_ScaledToUnitInterval ==
  pc = "scaled_done" =>
    /\ df.cols = arg.cols
    /\ Len(df.rows) = Len(arg.rows)
    /\ \A j \in DOMAIN arg.cols :
          LET c == arg.cols[j]
              listed == \E k \in DOMAIN feature_cols : feature_cols[k] = c
          IN  \A i \in DOMAIN arg.rows :
                IF ~listed THEN df.rows[i][c] = arg.rows[i][c]
                ELSE LET lo == CHOOSE x \in {Imputed(r, c) : r \in DOMAIN arg.rows} :
                                 \A r \in DOMAIN arg.rows : RLe(x, Imputed(r, c))
                         hi == CHOOSE x \in {Imputed(r, c) : r \in DOMAIN arg.rows} :
                                 \A r \in DOMAIN arg.rows : RLe(Imputed(r, c), x)
                         v  == df.rows[i][c]
                     IN  /\ InUnitInterval(v)
                         /\ IF hi = lo THEN v = RZero
                            ELSE RMul(v, RSub(hi, lo)) = RSub(Imputed(i, c), lo)

\* C17 witness: a column holding a missing value and 1/5 has been scaled
\* to 0 and 1, every other rate of the table as well
C17_Witness ==
  /\ pc = "scaled_done"
  /\ HasCol(arg, "assists_per90")
  /\ Len(arg.rows) = 2
  /\ arg.rows[1]["assists_per90"].d = 0
  /\ arg.rows[2]["assists_per90"] = Rat(1, 5)
  /\ df.rows[1]["assists_per90"] = RZero
  /\ df.rows[2]["assists_per90"] = ROne
  /\ df.rows[1]["Ast"].d = 0

\* C18: every trait stored for a cluster has the mean of the cluster's rows
\* and the z-score (cluster mean - population mean) / population standard
\* deviation, a finite number, and 0 when that deviation is 0 or undefined;
\* the stored traits are the features in order of non-increasing |z|
C18_ZScoreGuarded ==
  pc \in {"cl_save_table", "cl_save_model"} =>
    \A c \in DOMAIN clus.cluster_profiles :
      LET traits == clus.cluster_profiles[c].traits
      IN  /\ Len(traits) = (IF Len(clus.feature_names) < 5
                               THEN Len(clus.feature_names) ELSE 5)
          /\ \A j \in DOMAIN traits :
                \E f \in DOMAIN clus.feature_names :
                   traits[j].feat = clus.feature_names[f]
          /\ \A i, j \in DOMAIN traits : i < j => traits[i].feat # traits[j].feat
          /\ \A j \in DOMAIN traits :
                LET cm == Mean(ColumnOf(ClusterRows(df, c), traits[j].feat))
                    pm == Mean(ColumnOf(df, traits[j].feat))
                    pv == Variance(ColumnOf(df, traits[j].feat))
                    z  == traits[j].z_score
                IN  /\ traits[j].mean = cm
                    /\ z.sq.d > 0
                    /\ IF pv.d = 0 \/ pv.n = 0 THEN z.sign = 0 /\ z.sq = RZero
                       ELSE /\ RMul(z.sq, pv) = RMul(RSub(cm, pm), RSub(cm, pm))
                            /\ z.sign = (IF RLt(pm, cm) THEN 1
                                         ELSE IF RLt(cm, pm) THEN -1 ELSE 0)
          /\ \A j \in 1..(Len(traits) - 1) :
                RLe(traits[j + 1].z_score.sq, traits[j].z_score.sq)

\* C18 witness: a cluster whose xag_per90 deviates more than its
\* goals_per90 has its traits stored in that order
C18_Witness ==
  /\ pc = "cl_save_table"
  /\ \E c \in DOMAIN clus.cluster_profiles :
        LET traits == clus.cluster_profiles[c].traits
        IN  /\ Len(traits) = 2
            /\ traits[1].feat = "xag_per90"
            /\ traits[2].feat = "goals_per90"
            /\ RLt(traits[2].z_score.sq, traits[1].z_score.sq)
            /\ traits[2].z_score.sign # 0

====
